---- MODULE Spec2Model ----
(***************************************************************************)
(* Model of src/dutch_word_analyzer.py: the DutchWordAnalyzer batch        *)
(* (process_words_from_file), the lookup merge (get_word_info,             *)
(* _get_wiktionary_info) and the rule engine (_get_verb_forms,             *)
(* _get_noun_forms, _get_adjective_forms).                                 *)
(*                                                                         *)
(* Python strings are sequences of one-character strings, so that strip,   *)
(* lower, endswith and concatenation are computed as the code computes     *)
(* them.  A Python value that is either None or a str is a record          *)
(* [tag, s]; a dict is a function whose DOMAIN is the set of its keys, so  *)
(* a missing key and a key holding None are different.                     *)
(***************************************************************************)
EXTENDS Integers, Sequences, FiniteSets, TLC

VARIABLES
    fileExists,  \* words_file.exists()
    lines,       \* the raw lines of the words file
    words,       \* the stripped non-blank lines (line 317)
    i,           \* 1-based position of the loop of line 322
    word_info,   \* the record of the word being processed
    results,     \* the list returned by process_words_from_file
    pc,          \* position in process_words_from_file
    lookup,      \* what the endpoints answered for the current word
    call         \* a direct call of a rule-engine function: [fn, arg, rets]

batch == <<fileExists, lines, words, i, word_info, results, pc, lookup>>

vars == <<batch, call>>

----------------------------------------------------------------------------
(* Python values *)

None == [tag |-> "none", s |-> <<>>]

Str(s) == [tag |-> "str", s |-> s]

\* Python truthiness of an Optional[str]: None and '' are falsy.
Truthy(v) == v.tag = "str" /\ Len(v.s) > 0

EmptyDict == [k \in {} |-> None]

DictGet(d, k) == IF k \in DOMAIN d THEN d[k] ELSE None

DictSet(d, k, v) == [x \in (DOMAIN d) \cup {k} |-> IF x = k THEN v ELSE d[x]]

\* any(d.values())
AnyValue(d) == \E k \in DOMAIN d : Truthy(d[k])

----------------------------------------------------------------------------
(* str methods *)

Whitespace == {" ", "\t", "\n", "\r"}

UpperToLower ==
    [c \in {"A","B","C","D","E","F","G","H","I","J","K","L","M",
            "N","O","P","Q","R","S","T","U","V","W","X","Y","Z"} |->
        CASE c = "A" -> "a" [] c = "B" -> "b" [] c = "C" -> "c" [] c = "D" -> "d"
          [] c = "E" -> "e" [] c = "F" -> "f" [] c = "G" -> "g" [] c = "H" -> "h"
          [] c = "I" -> "i" [] c = "J" -> "j" [] c = "K" -> "k" [] c = "L" -> "l"
          [] c = "M" -> "m" [] c = "N" -> "n" [] c = "O" -> "o" [] c = "P" -> "p"
          [] c = "Q" -> "q" [] c = "R" -> "r" [] c = "S" -> "s" [] c = "T" -> "t"
          [] c = "U" -> "u" [] c = "V" -> "v" [] c = "W" -> "w" [] c = "X" -> "x"
          [] c = "Y" -> "y" [] c = "Z" -> "z"]

LowerChar(c) == IF c \in DOMAIN UpperToLower THEN UpperToLower[c] ELSE c

\* str.lower()
Lower(s) == [k \in 1..Len(s) |-> LowerChar(s[k])]

RECURSIVE LStrip(_)
LStrip(s) ==
    IF s # <<>> /\ Head(s) \in Whitespace THEN LStrip(Tail(s)) ELSE s

RECURSIVE RStrip(_)
RStrip(s) ==
    IF s # <<>> /\ s[Len(s)] \in Whitespace
    THEN RStrip(SubSeq(s, 1, Len(s) - 1))
    ELSE s

\* str.strip()
Strip(s) == RStrip(LStrip(s))

\* str.endswith(suffix)
EndsWith(s, suffix) ==
    /\ Len(s) >= Len(suffix)
    /\ SubSeq(s, Len(s) - Len(suffix) + 1, Len(s)) = suffix

----------------------------------------------------------------------------
(* The irregular-verb table: infinitive :> <<past_tense, past_participle>> *)

IRREGULAR_VERBS ==
       <<"l","e","z","e","n">> :> << <<"l","a","s">>, <<"g","e","l","e","z","e","n">> >> @@
       <<"s","c","h","r","i","j","v","e","n">> :> << <<"s","c","h","r","e","e","f">>, <<"g","e","s","c","h","r","e","v","e","n">> >> @@
       <<"b","e","g","r","i","j","p","e","n">> :> << <<"b","e","g","r","e","e","p">>, <<"b","e","g","r","e","p","e","n">> >> @@
       <<"k","o","m","e","n">> :> << <<"k","w","a","m">>, <<"g","e","k","o","m","e","n">> >> @@
       <<"g","a","a","n">> :> << <<"g","i","n","g">>, <<"g","e","g","a","a","n">> >> @@
       <<"z","i","e","n">> :> << <<"z","a","g">>, <<"g","e","z","i","e","n">> >> @@
       <<"d","o","e","n">> :> << <<"d","e","e","d">>, <<"g","e","d","a","a","n">> >> @@
       <<"h","e","b","b","e","n">> :> << <<"h","a","d">>, <<"g","e","h","a","d">> >> @@
       <<"z","i","j","n">> :> << <<"w","a","s">>, <<"g","e","w","e","e","s","t">> >> @@
       <<"w","o","r","d","e","n">> :> << <<"w","e","r","d">>, <<"g","e","w","o","r","d","e","n">> >> @@
       <<"n","e","m","e","n">> :> << <<"n","a","m">>, <<"g","e","n","o","m","e","n">> >> @@
       <<"g","e","v","e","n">> :> << <<"g","a","f">>, <<"g","e","g","e","v","e","n">> >> @@
       <<"b","l","i","j","v","e","n">> :> << <<"b","l","e","e","f">>, <<"g","e","b","l","e","v","e","n">> >> @@
       <<"k","r","i","j","g","e","n">> :> << <<"k","r","e","e","g">>, <<"g","e","k","r","e","g","e","n">> >> @@
       <<"z","e","g","g","e","n">> :> << <<"z","e","i">>, <<"g","e","z","e","g","d">> >> @@
       <<"w","e","t","e","n">> :> << <<"w","i","s","t">>, <<"g","e","w","e","t","e","n">> >> @@
       <<"e","t","e","n">> :> << <<"a","t">>, <<"g","e","g","e","t","e","n">> >> @@
       <<"d","r","i","n","k","e","n">> :> << <<"d","r","o","n","k">>, <<"g","e","d","r","o","n","k","e","n">> >> @@
       <<"l","o","p","e","n">> :> << <<"l","i","e","p">>, <<"g","e","l","o","p","e","n">> >> @@
       <<"s","t","a","a","n">> :> << <<"s","t","o","n","d">>, <<"g","e","s","t","a","a","n">> >> @@
       <<"z","i","t","t","e","n">> :> << <<"z","a","t">>, <<"g","e","z","e","t","e","n">> >> @@
       <<"l","i","g","g","e","n">> :> << <<"l","a","g">>, <<"g","e","l","e","g","e","n">> >> @@
       <<"v","i","n","d","e","n">> :> << <<"v","o","n","d">>, <<"g","e","v","o","n","d","e","n">> >> @@
       <<"d","e","n","k","e","n">> :> << <<"d","a","c","h","t">>, <<"g","e","d","a","c","h","t">> >> @@
       <<"b","r","e","n","g","e","n">> :> << <<"b","r","a","c","h","t">>, <<"g","e","b","r","a","c","h","t">> >> @@
       <<"k","o","p","e","n">> :> << <<"k","o","c","h","t">>, <<"g","e","k","o","c","h","t">> >> @@
       <<"v","e","r","k","o","p","e","n">> :> << <<"v","e","r","k","o","c","h","t">>, <<"v","e","r","k","o","c","h","t">> >> @@
       <<"h","e","l","p","e","n">> :> << <<"h","i","e","l","p">>, <<"g","e","h","o","l","p","e","n">> >> @@
       <<"s","p","r","e","k","e","n">> :> << <<"s","p","r","a","k">>, <<"g","e","s","p","r","o","k","e","n">> >>

FormKeys ==
    {"past_tense", "past_participle", "present_tense",
     "plural", "comparative", "superlative"}

----------------------------------------------------------------------------
(* The rule engine *)

Voiceless == {"p", "t", "k", "f", "s", "x", "c"}

\* _get_verb_forms with the voiceless set of its own comment (p, t, k, f, s):
\* the letters x and c are left out.
get_verb_forms_kofschip(word) ==
    IF EndsWith(word, <<"e","n">>)
    THEN LET stem == SubSeq(word, 1, Len(word) - 2) IN
         IF Len(stem) > 0
         THEN LET voiceless == LowerChar(stem[Len(stem)]) \in {"p", "t", "k", "f", "s"}
              IN  [k \in {"past_tense", "past_participle"} |->
                     IF k = "past_tense"
                     THEN Str(stem \o (IF voiceless THEN <<"t","e">> ELSE <<"d","e">>))
                     ELSE Str(<<"g","e">> \o stem \o
                              (IF voiceless THEN <<"t">> ELSE <<"d">>))]
         ELSE EmptyDict
    ELSE EmptyDict

\* _get_verb_forms(word)
get_verb_forms(word) ==
    IF EndsWith(word, <<"e","n">>)
    THEN LET stem == SubSeq(word, 1, Len(word) - 2) IN
         IF Len(stem) > 0
         THEN LET final_cons == LowerChar(stem[Len(stem)])
                  voiceless  == final_cons \in Voiceless
              IN  [k \in {"past_tense", "past_participle"} |->
                     IF k = "past_tense"
                     THEN Str(stem \o (IF voiceless THEN <<"t","e">> ELSE <<"d","e">>))
                     ELSE Str(<<"g","e">> \o stem \o
                              (IF voiceless THEN <<"t">> ELSE <<"d">>))]
         ELSE EmptyDict
    ELSE EmptyDict

\* _get_noun_forms without its final else: only the listed endings get a
\* plural.
get_noun_forms_noDefault(word) ==
    IF \/ EndsWith(word, <<"e","l">>)
       \/ EndsWith(word, <<"e","r">>)
       \/ EndsWith(word, <<"e","n">>)
    THEN [k \in {"plural"} |-> Str(word \o <<"s">>)]
    ELSE IF EndsWith(word, <<"h","e","i","d">>) \/ EndsWith(word, <<"i","n","g">>)
    THEN [k \in {"plural"} |-> Str(word \o <<"e","n">>)]
    ELSE EmptyDict

\* _get_noun_forms(word)
get_noun_forms(word) ==
    IF \/ EndsWith(word, <<"e","l">>)
       \/ EndsWith(word, <<"e","r">>)
       \/ EndsWith(word, <<"e","n">>)
    THEN [k \in {"plural"} |-> Str(word \o <<"s">>)]
    ELSE IF EndsWith(word, <<"h","e","i","d">>)
    THEN [k \in {"plural"} |-> Str(word \o <<"e","n">>)]
    ELSE IF EndsWith(word, <<"i","n","g">>)
    THEN [k \in {"plural"} |-> Str(word \o <<"e","n">>)]
    ELSE [k \in {"plural"} |-> Str(word \o <<"e","n">>)]

\* _get_adjective_forms(word)
get_adjective_forms(word) ==
    IF Len(word) > 2
    THEN [k \in {"comparative", "superlative"} |->
            IF k = "comparative"
            THEN Str(word \o <<"e","r">>)
            ELSE IF EndsWith(word, <<"r">>)
                 THEN Str(word \o <<"s","t">>)
                 ELSE Str(word \o <<"s","t">>)]
    ELSE EmptyDict

----------------------------------------------------------------------------
(* Bounds of the model *)

\* Longest words file, in lines.
MaxLines == 2

\* Most form slots one inflections response reports.
MaxInfl == 1

----------------------------------------------------------------------------
(* The lookup collaborator: what the three Wiktionary endpoints answer *)

verb == <<"v","e","r","b">>
noun == <<"n","o","u","n">>
adjective == <<"a","d","j","e","c","t","i","v","e">>

\* entry['partOfSpeech'] of the first entry that has one; None when no entry
\* has one or the definition endpoint does not answer 200.
PosValues ==
    {None, Str(<<>>), Str(<<"V","e","r","b">>), Str(<<"N","o","u","n">>),
     Str(<<"A","d","j","e","c","t","i","v","e">>), Str(<<"A","d","v","e","r","b">>)}

\* The cleaned, non-empty definitions of the Dutch entries.
MeaningLists == {<<>>, <<"meaning">>}

\* The slots the inflections endpoint can fill (lines 152-171).
InflKeys == {"past_tense", "past_participle", "plural", "comparative", "superlative"}

\* infl.get('word', '')
InflWords == {Str(<<>>), Str(<<"i","w">>)}

InflDicts ==
    UNION {[K -> InflWords] : K \in {S \in SUBSET InflKeys : Cardinality(S) <= MaxInfl}}

\* First word of the table cell a conjugation pattern matches on the
\* nl.wiktionary.org page; None when nothing matches.
HtmlForms == {None, Str(<<"h">>), Str(<<"h","t","m","l">>)}

Responses ==
    [fail : BOOLEAN, pos : PosValues, meanings : MeaningLists,
     infl : InflDicts, htmlPast : HtmlForms, htmlPart : HtmlForms]

\* A failed request carries nothing else.
Failure ==
    [fail |-> TRUE, pos |-> None, meanings |-> <<>>, infl |-> EmptyDict,
     htmlPast |-> None, htmlPart |-> None]

CollaboratorResponses == {r \in Responses : r.fail => r = Failure}

\* Optional[Dict] returned by the lookup helpers.
NoData == [some |-> FALSE, meanings |-> <<>>, forms |-> EmptyDict, word_type |-> None]

Some(r) ==
    [some |-> TRUE, meanings |-> r.meanings, forms |-> r.forms, word_type |-> r.word_type]

\* Lines 177-185: the irregular-verb override inside _get_wiktionary_info.
IrregularOverride(word, r) ==
    IF word \in DOMAIN IRREGULAR_VERBS
    THEN LET past_tense      == IRREGULAR_VERBS[word][1]
             past_participle == IRREGULAR_VERBS[word][2]
             typed == IF ~Truthy(r.word_type)
                      THEN [r EXCEPT !.word_type = Str(verb)]
                      ELSE r
         IN  [typed EXCEPT !.forms =
                 DictSet(DictSet(@, "past_tense", Str(past_tense)),
                         "past_participle", Str(past_participle))]
    ELSE r

\* Lines 200-209 and 217-225: a scraped form fills its slot when the slot is
\* falsy and the form is longer than one character.
HtmlFill(r, key, form) ==
    IF form # None /\ ~Truthy(DictGet(r.forms, key)) /\ Truthy(form) /\ Len(form.s) > 1
    THEN [r EXCEPT !.forms = DictSet(@, key, form)]
    ELSE r

\* _get_wiktionary_info(word), given what the endpoints answer.
get_wiktionary_info(word, resp) ==
    IF resp.fail
    THEN NoData
    ELSE LET parsed == [meanings |-> resp.meanings, forms |-> resp.infl,
                        word_type |-> resp.pos]
             irr    == IrregularOverride(word, parsed)
             past   == HtmlFill(irr, "past_tense", resp.htmlPast)
             part   == HtmlFill(past, "past_participle", resp.htmlPart)
         IN  IF part.meanings # <<>> \/ AnyValue(part.forms)
             THEN Some(part)
             ELSE NoData

\* _get_woordenboek_info(word): a placeholder that returns None.
get_woordenboek_info(word) == NoData

\* Lines 89-97 of get_word_info.
MergeWoordenboek(result, data) ==
    [result EXCEPT
        !.meanings  = IF @ = <<>> THEN data.meanings ELSE @,
        !.word_type = IF ~Truthy(@) THEN data.word_type ELSE @,
        !.forms     = [k \in DOMAIN @ |->
                          IF ~Truthy(@[k]) /\ Truthy(DictGet(data.forms, k))
                          THEN data.forms[k]
                          ELSE @[k]]]

\* get_word_info(word)
get_word_info(raw, resp) ==
    LET word == Lower(Strip(raw)) IN
    IF word = <<>>
    THEN EmptyDict
    ELSE LET seed == [word |-> word, meanings |-> <<>>,
                      forms |-> [k \in FormKeys |-> None], word_type |-> None]
             wiktionary_data == get_wiktionary_info(word, resp)
             \* result.update(wiktionary_data)
             updated == IF wiktionary_data.some
                        THEN [seed EXCEPT !.meanings  = wiktionary_data.meanings,
                                          !.forms     = wiktionary_data.forms,
                                          !.word_type = wiktionary_data.word_type]
                        ELSE seed
             woordenboek_data == get_woordenboek_info(word)
         IN  IF woordenboek_data.some
             THEN MergeWoordenboek(updated, woordenboek_data)
             ELSE updated

----------------------------------------------------------------------------
(* process_words_from_file: the per-word stages *)

\* The fill loop without its "if not forms.get(key)" test: every derived
\* form is written.
FillAlways(forms, new) ==
    [k \in (DOMAIN forms) \cup (DOMAIN new) |->
        IF k \in DOMAIN new THEN new[k] ELSE forms[k]]

\* for key, value in new.items(): if not forms.get(key): forms[key] = value
FillUnset(forms, new) ==
    LET filled == {k \in DOMAIN new : ~Truthy(DictGet(forms, k))} IN
    [k \in (DOMAIN forms) \cup filled |-> IF k \in filled THEN new[k] ELSE forms[k]]

\* Lines 335-348: verb inference.  st is [wt, info]: the local word_type and
\* the record.
InferVerb(word, st) ==
    IF word \notin DOMAIN IRREGULAR_VERBS
    THEN LET verb_forms == get_verb_forms(word) IN
         IF DOMAIN verb_forms # {} /\ AnyValue(verb_forms)
         THEN LET typed == IF st.wt = <<>>
                           THEN [wt |-> verb,
                                 info |-> [st.info EXCEPT !.word_type = Str(verb)]]
                           ELSE st
              IN  IF typed.wt = verb
                  THEN [typed EXCEPT !.info.forms = FillUnset(@, verb_forms)]
                  ELSE typed
         ELSE st
    ELSE IF st.wt = <<>>
         THEN [wt |-> verb, info |-> [st.info EXCEPT !.word_type = Str(verb)]]
         ELSE st

\* Lines 350-357: noun inference.
InferNoun(word, st) ==
    LET noun_forms == get_noun_forms(word)
        typed == IF DOMAIN noun_forms # {} /\ st.wt = <<>>
                 THEN [wt |-> noun,
                       info |-> [st.info EXCEPT !.word_type = Str(noun)]]
                 ELSE st
    IN  IF /\ typed.wt = noun
           /\ DOMAIN noun_forms # {}
           /\ ~Truthy(DictGet(typed.info.forms, "plural"))
        THEN [typed EXCEPT !.info.forms =
                 DictSet(@, "plural", DictGet(noun_forms, "plural"))]
        ELSE typed

\* Lines 359-367: adjective inference.
InferAdjective(word, st) ==
    LET adj_forms == get_adjective_forms(word)
        typed == IF DOMAIN adj_forms # {} /\ st.wt = <<>>
                 THEN [wt |-> adjective,
                       info |-> [st.info EXCEPT !.word_type = Str(adjective)]]
                 ELSE st
    IN  IF typed.wt = adjective
        THEN [typed EXCEPT !.info.forms = FillUnset(@, adj_forms)]
        ELSE typed

\* Line 333: the inference gate.
Gate(info) == Lower(info.word_type.s) = <<>> \/ ~AnyValue(info.forms)

\* Lines 328-367, for a record whose word_type is a str.
Infer(word, info) ==
    LET word_type == Lower(info.word_type.s) IN
    IF Gate(info)
    THEN InferAdjective(word,
            InferNoun(word,
               InferVerb(word, [wt |-> word_type, info |-> info]))).info
    ELSE info

SetNone(forms, keys) ==
    [k \in (DOMAIN forms) \cup keys |-> IF k \in keys THEN None ELSE forms[k]]

\* Pruning whose verb branch forgets the plural slot.
Prune_keepsPlural(info) ==
    LET word_type == Lower(info.word_type.s) IN
    IF word_type = verb
    THEN [info EXCEPT !.forms = SetNone(@, {"comparative", "superlative"})]
    ELSE IF word_type = adjective
    THEN [info EXCEPT !.forms =
            SetNone(@, {"past_tense", "past_participle", "present_tense", "plural"})]
    ELSE IF word_type = noun
    THEN [info EXCEPT !.forms =
            SetNone(@, {"past_tense", "past_participle", "present_tense",
                        "comparative", "superlative"})]
    ELSE info

\* Pruning that also reclassifies: a verb left without any verb form is
\* turned into a noun after its slots are cleared.
Prune_reclassifies(info) ==
    LET word_type == Lower(info.word_type.s) IN
    IF word_type = verb
    THEN LET cleared == SetNone(info.forms, {"comparative", "superlative", "plural"})
         IN  IF \/ Truthy(DictGet(cleared, "past_tense"))
                \/ Truthy(DictGet(cleared, "past_participle"))
             THEN [info EXCEPT !.forms = cleared]
             ELSE [info EXCEPT !.forms = cleared, !.word_type = Str(noun)]
    ELSE IF word_type = adjective
    THEN [info EXCEPT !.forms =
            SetNone(@, {"past_tense", "past_participle", "present_tense", "plural"})]
    ELSE IF word_type = noun
    THEN [info EXCEPT !.forms =
            SetNone(@, {"past_tense", "past_participle", "present_tense",
                        "comparative", "superlative"})]
    ELSE info

\* Lines 369-388: category pruning, for a record whose word_type is a str.
Prune(info) ==
    LET word_type == Lower(info.word_type.s) IN
    IF word_type = verb
    THEN [info EXCEPT !.forms = SetNone(@, {"comparative", "superlative", "plural"})]
    ELSE IF word_type = adjective
    THEN [info EXCEPT !.forms =
            SetNone(@, {"past_tense", "past_participle", "present_tense", "plural"})]
    ELSE IF word_type = noun
    THEN [info EXCEPT !.forms =
            SetNone(@, {"past_tense", "past_participle", "present_tense",
                        "comparative", "superlative"})]
    ELSE info

----------------------------------------------------------------------------
(* The words file *)

S_werken == <<"w","e","r","k","e","n">>
S_lezen  == <<"l","e","z","e","n">>
S_tafel  == <<"t","a","f","e","l">>

\* Lines as the file iterator yields them.
FileLines ==
    {<<"\n">>, S_werken \o <<"\n">>, <<" ">> \o S_lezen \o <<"\n">>,
     S_tafel \o <<"\n">>}

RECURSIVE SeqsUpTo(_, _)
SeqsUpTo(S, n) ==
    IF n = 0
    THEN {<<>>}
    ELSE LET shorter == SeqsUpTo(S, n - 1) IN
         shorter \cup {Append(q, x) : q \in shorter, x \in S}

NonBlank(line) == Strip(line) # <<>>

\* Line 317: [line.strip() for line in f if line.strip()]
ReadWords(ls) ==
    LET kept == SelectSeq(ls, NonBlank) IN
    [k \in 1..Len(kept) |-> Strip(kept[k])]

----------------------------------------------------------------------------
(* The batch *)

\* What the endpoints answered, as far as the claims distinguish it.
Outcome(resp) ==
    IF resp.fail THEN "failed"
    ELSE IF /\ resp.pos = None
            /\ resp.meanings = <<>>
            /\ resp.infl = EmptyDict
            /\ resp.htmlPast = None
            /\ resp.htmlPart = None
    THEN "empty"
    ELSE "data"

NoCall == [fn |-> "none", arg |-> <<>>, rets |-> <<>>]

InitBatch(files) ==
    /\ fileExists \in BOOLEAN
    /\ lines \in files
    /\ words = <<>>
    /\ i = 0
    /\ word_info = EmptyDict
    /\ results = <<>>
    /\ pc = "open"
    /\ lookup = "idle"
    /\ call = NoCall

\* Words files of up to MaxLines lines.
Init == InitBatch(SeqsUpTo(FileLines, MaxLines))

\* Lines 311-313: the file is missing; [] is returned.
FileMissing ==
    /\ pc = "open"
    /\ ~fileExists
    /\ pc' = "done"
    /\ UNCHANGED <<fileExists, lines, words, i, word_info, results, lookup, call>>

\* Lines 315-322: read the words, start the loop.
ReadFile ==
    /\ pc = "open"
    /\ fileExists
    /\ words' = ReadWords(lines)
    /\ results' = <<>>
    /\ i' = 1
    /\ pc' = "lookup"
    /\ UNCHANGED <<fileExists, lines, word_info, lookup, call>>

\* Line 324: word_info = self.get_word_info(word)
GetWordInfo ==
    /\ pc = "lookup"
    /\ i <= Len(words)
    /\ \E resp \in CollaboratorResponses :
          /\ word_info' = get_word_info(words[i], resp)
          /\ lookup' = Outcome(resp)
    /\ pc' = "infer"
    /\ UNCHANGED <<fileExists, lines, words, i, results, call>>

\* Line 328 or 370: word_info.get('word_type', '') is None, since the key is
\* present; None.lower() raises AttributeError, which nothing catches.
RaiseAttributeError ==
    /\ pc \in {"infer", "prune"}
    /\ word_info.word_type = None
    /\ pc' = "crashed"
    /\ UNCHANGED <<fileExists, lines, words, i, word_info, results, lookup, call>>

\* Lines 328-367
InferForms ==
    /\ pc = "infer"
    /\ word_info.word_type # None
    /\ word_info' = Infer(words[i], word_info)
    /\ pc' = "prune"
    /\ UNCHANGED <<fileExists, lines, words, i, results, lookup, call>>

\* Lines 369-388
PruneForms ==
    /\ pc = "prune"
    /\ word_info.word_type # None
    /\ word_info' = Prune(word_info)
    /\ pc' = "append"
    /\ UNCHANGED <<fileExists, lines, words, i, results, lookup, call>>

\* Lines 390-394
AppendResult ==
    /\ pc = "append"
    /\ results' = Append(results, word_info)
    /\ i' = i + 1
    /\ pc' = "lookup"
    /\ UNCHANGED <<fileExists, lines, words, word_info, lookup, call>>

\* Line 396
ReturnResults ==
    /\ pc = "lookup"
    /\ i > Len(words)
    /\ pc' = "done"
    /\ UNCHANGED <<fileExists, lines, words, i, word_info, results, lookup, call>>

Next ==
    \/ FileMissing
    \/ ReadFile
    \/ GetWordInfo
    \/ RaiseAttributeError
    \/ InferForms
    \/ PruneForms
    \/ AppendResult
    \/ ReturnResults

Spec == Init /\ [][Next]_vars

----------------------------------------------------------------------------
(* The batch on one-line files, over a wide vocabulary *)

S_noemen == <<"n","o","e","m","e","n">>
S_mooi   == <<"m","o","o","i">>
S_en     == <<"e","n">>

OneWordLines ==
    {w \o <<"\n">> : w \in DOMAIN IRREGULAR_VERBS}
        \cup {<<"\n">>, S_werken \o <<"\n">>, S_tafel \o <<"\n">>,
              S_noemen \o <<"\n">>, S_mooi \o <<"\n">>, S_en \o <<"\n">>,
              <<" ","L","e","z","e","n","\n">>}

InitOneWord == InitBatch({<<l>> : l \in OneWordLines})

SpecOneWord == InitOneWord /\ [][Next]_vars

----------------------------------------------------------------------------
(* The rule engine and the pruning step, called directly *)

\* Longest word given to a rule-engine function.
MaxWordLen == 3

\* Most times pruning is applied to one record.
MaxApply == 2

RuleAlphabet == {"p", "t", "k", "f", "s", "x", "c", "e", "n", "d"}

RuleWords ==
    SeqsUpTo(RuleAlphabet, MaxWordLen)
        \cup {S_werken, S_noemen, S_tafel, S_lezen, S_mooi}

SlotValues == {None, Str(<<>>), Str(<<"x">>)}

PruneRecords ==
    [word : {S_werken}, meanings : {<<>>},
     forms : UNION {[K -> SlotValues] : K \in SUBSET FormKeys},
     word_type : PosValues \ {None}]

InitRules ==
    /\ fileExists = FALSE
    /\ lines = <<>>
    /\ words = <<>>
    /\ i = 0
    /\ word_info = EmptyDict
    /\ results = <<>>
    /\ pc = "rules"
    /\ lookup = "idle"
    /\ call \in
          [fn : {"get_verb_forms", "get_noun_forms", "get_adjective_forms"},
           arg : RuleWords, rets : {<<>>}]
             \cup [fn : {"prune"}, arg : PruneRecords, rets : {<<>>}]

CallVerbForms ==
    /\ call.fn = "get_verb_forms"
    /\ call.rets = <<>>
    /\ call' = [call EXCEPT !.rets = <<get_verb_forms(call.arg)>>]
    /\ UNCHANGED batch

CallNounForms ==
    /\ call.fn = "get_noun_forms"
    /\ call.rets = <<>>
    /\ call' = [call EXCEPT !.rets = <<get_noun_forms(call.arg)>>]
    /\ UNCHANGED batch

CallAdjectiveForms ==
    /\ call.fn = "get_adjective_forms"
    /\ call.rets = <<>>
    /\ call' = [call EXCEPT !.rets = <<get_adjective_forms(call.arg)>>]
    /\ UNCHANGED batch

\* Pruning applied to a record, then to its own result.
CallPrune ==
    /\ call.fn = "prune"
    /\ Len(call.rets) < MaxApply
    /\ LET last == IF call.rets = <<>> THEN call.arg ELSE call.rets[Len(call.rets)]
       IN  call' = [call EXCEPT !.rets = Append(@, Prune(last))]
    /\ UNCHANGED batch

NextRules ==
    \/ CallVerbForms
    \/ CallNounForms
    \/ CallAdjectiveForms
    \/ CallPrune

SpecRules == InitRules /\ [][NextRules]_vars

----------------------------------------------------------------------------
(* Properties *)

\* The stages in which i names the word being processed.
InWord == pc \in {"infer", "prune", "append", "crashed"}

\* The collaborator gave nothing for the current word: the request failed,
\* or every endpoint answered without any data.
NoCollaboratorData == InWord /\ lookup \in {"failed", "empty"}

\* r's word type is t, compared as the code compares it (lower-cased).
TypeIs(r, t) == r.word_type.tag = "str" /\ Lower(r.word_type.s) = t

\* A slot without a value: the key holds None or is missing.
Unset(forms, k) == DictGet(forms, k) = None

\* C1: every record the batch has produced for a word of the irregular-verb
\* table carries the table's past tense and past participle, whatever the
\* collaborator answered.
C1_IrregularFormsAlwaysWin ==
    \A k \in 1..Len(results) :
        results[k].word \in DOMAIN IRREGULAR_VERBS =>
            /\ DictGet(results[k].forms, "past_tense")
                  = Str(IRREGULAR_VERBS[results[k].word][1])
            /\ DictGet(results[k].forms, "past_participle")
                  = Str(IRREGULAR_VERBS[results[k].word][2])

\* C2: a lookup that fails or returns nothing never aborts the batch: the
\* batch does not stop on an exception, and when it returns it has a record
\* for every word.
C2_LookupFailureNeverAborts ==
    /\ NoCollaboratorData => pc # "crashed"
    /\ (pc = "done" /\ fileExists) => Len(results) = Len(words)

\* C4: a regular "-en" word with a non-empty stem and no collaborator data
\* is processed to the end, as a verb with the derived past forms and without
\* plural, comparative or superlative.
C4_RegularVerbWithoutData ==
    (/\ NoCollaboratorData
     /\ words[i] \notin DOMAIN IRREGULAR_VERBS
     /\ EndsWith(words[i], <<"e","n">>)
     /\ Len(words[i]) > 2)
    => /\ pc # "crashed"
       /\ pc = "append" =>
            /\ word_info.word_type = Str(verb)
            /\ DictGet(word_info.forms, "past_tense")
                  = get_verb_forms(words[i])["past_tense"]
            /\ DictGet(word_info.forms, "past_participle")
                  = get_verb_forms(words[i])["past_participle"]
            /\ \A k \in {"plural", "comparative", "superlative"} :
                  Unset(word_info.forms, k)

\* C5: a word of the irregular-verb table with no collaborator data is
\* processed to the end, as a verb with the table's past forms.
C5_IrregularVerbWithoutData ==
    (NoCollaboratorData /\ words[i] \in DOMAIN IRREGULAR_VERBS)
    => /\ pc # "crashed"
       /\ pc = "append" =>
            /\ word_info.word_type = Str(verb)
            /\ DictGet(word_info.forms, "past_tense")
                  = Str(IRREGULAR_VERBS[words[i]][1])
            /\ DictGet(word_info.forms, "past_participle")
                  = Str(IRREGULAR_VERBS[words[i]][2])

\* C6: a word with no collaborator data that the verb rule does not match
\* is processed to the end, as a noun with the derived plural.
C6_NounIsSecondChoice ==
    (/\ NoCollaboratorData
     /\ words[i] \notin DOMAIN IRREGULAR_VERBS
     /\ DOMAIN get_verb_forms(words[i]) = {})
    => /\ pc # "crashed"
       /\ pc = "append" =>
            /\ word_info.word_type = Str(noun)
            /\ DictGet(word_info.forms, "plural")
                  = get_noun_forms(words[i])["plural"]

\* The non-blank lines of the file, in order.
NonBlankLines == SelectSeq(lines, NonBlank)

\* C7: for every words file the batch returns one record per non-blank
\* line, in the order of the lines.
C7_OneRecordPerNonBlankLine ==
    /\ fileExists => pc # "crashed"
    /\ (pc = "done" /\ fileExists) =>
          /\ Len(results) = Len(NonBlankLines)
          /\ \A k \in 1..Len(results) :
                results[k].word = Lower(Strip(NonBlankLines[k]))

\* C9: every record of the results has exactly the six form slots, each
\* holding None or a string.
C9_SixSlotsInEveryRecord ==
    \A k \in 1..Len(results) : DOMAIN results[k].forms = FormKeys


\* C3: in every record of the results, the slots that do not belong to the
\* record's word type are unset: a verb has no plural, comparative or
\* superlative; an adjective no past tense, past participle, present tense or
\* plural; a noun no past tense, past participle, present tense, comparative
\* or superlative.
C3_CategoryInappropriateSlotsUnset ==
    \A k \in 1..Len(results) :
        LET r == results[k] IN
        /\ TypeIs(r, verb) =>
              \A s \in {"plural", "comparative", "superlative"} : Unset(r.forms, s)
        /\ TypeIs(r, adjective) =>
              \A s \in {"past_tense", "past_participle", "present_tense", "plural"} :
                 Unset(r.forms, s)
        /\ TypeIs(r, noun) =>
              \A s \in {"past_tense", "past_participle", "present_tense",
                        "comparative", "superlative"} : Unset(r.forms, s)

\* A verb record whose only slots are the three pruned ones, without
\* meanings: line 229 lets such a lookup through only when one of its form
\* values is truthy, so the collaborator reported a plural, comparative or
\* superlative for this verb and pruning cleared it.
C3_Witness ==
    \E k \in 1..Len(results) :
        /\ TypeIs(results[k], verb)
        /\ results[k].word = S_tafel
        /\ results[k].meanings = <<>>
        /\ DOMAIN results[k].forms = {"plural", "comparative", "superlative"}
        /\ \A s \in DOMAIN results[k].forms : results[k].forms[s] = None

C10_PruningIdempotent ==
    call.fn = "prune" =>
        \A k \in 2..Len(call.rets) : call.rets[k] = call.rets[1]

\* Pruning has been applied twice to a verb record that came with a plural,
\* and the first application changed the record.
C10_Witness ==
    /\ call.fn = "prune"
    /\ Len(call.rets) >= 2
    /\ TypeIs(call.arg, verb)
    /\ Truthy(DictGet(call.arg.forms, "plural"))
    /\ call.rets[1] # call.arg


\* The step of lines 328-367 on the current word.
InferStep == pc = "infer" /\ pc' = "prune"

C12_InferenceNeverChoosesAdjective ==
    [][/\ InferStep =>
            /\ ~Truthy(word_info.word_type) =>
                  word_info'.word_type \in {Str(verb), Str(noun)}
            /\ (\E k \in {"comparative", "superlative"} :
                   DictGet(word_info'.forms, k) # DictGet(word_info.forms, k)) =>
                  /\ Truthy(word_info.word_type)
                  /\ TypeIs(word_info, adjective)
       /\ (pc = "prune" /\ pc' = "append") =>
            word_info'.word_type = word_info.word_type]_vars

\* Inference has run on "mooi", which is long enough for the adjective rule:
\* the lower-case type "noun" is written by inference alone (the collaborator
\* reports "Noun"), with the derived plural and no comparative.
C12_Witness ==
    /\ pc = "prune"
    /\ word_info.word = S_mooi
    /\ word_info.word_type = Str(noun)
    /\ DictGet(word_info.forms, "plural") = Str(S_mooi \o <<"e","n">>)
    /\ Unset(word_info.forms, "comparative")
    /\ Unset(word_info.forms, "superlative")

====
